---- MODULE Spec2Model ----
(***************************************************************************)
(* Backend lifecycle orchestrator of MeigaHub-server                       *)
(* (src/app/backend_manager.py, class BackendManager).                     *)
(*                                                                         *)
(* One action models one stretch of a coroutine between two awaits: the    *)
(* event loop is single-threaded, so the code between two awaits is        *)
(* atomic, and every await (lock, to_thread(_stop_one / _start_one),       *)
(* health probe, readiness wait) is a point where other coroutines and     *)
(* the environment (processes exiting, external servers coming and going)  *)
(* may take steps.                                                         *)
(***************************************************************************)
EXTENDS Integers, Sequences, FiniteSets, TLC

\* ------------------------------------------------------------------ bounds
\* Calls one caller starts in a behaviour with a single caller (Spec).
MaxCalls == 3
\* Calls the first caller starts in a behaviour with two callers (SpecConc);
\* the second caller starts one.
MaxConcCalls == 1

\* ------------------------------------------------------------ static data
None == "None"          \* Python's None (no backend / no handle / no model)
NoModel == "None"       \* a falsy model_name: None or ""

\* _register_defaults: the registry, in dict insertion order.
Order == <<"llm", "whisper", "image">>
Backends == {Order[i] : i \in 1..Len(Order)}
\* supports_dynamic_model of each registered descriptor.
Dynamic == {"llm"}

\* Names a caller may pass as target_backend: the registered ones and one
\* that is not registered.
TargetNames == Backends \cup {"bogus"}

\* Model names: two that _safe_filename accepts and one it rejects (no .gguf
\* extension).
GoodModels == {"m1.gguf", "m2.gguf"}
BadModels == {"notes.txt"}
\* The (target_backend, model_name) pairs a caller passes.
CallArgs ==
  (Dynamic \X {NoModel, "m2.gguf", "notes.txt"})
    \cup ((Backends \ Dynamic) \X {NoModel, "m2.gguf"})
    \cup {<<"bogus", NoModel>>}
\* The deployments considered: which backends have a start command, and
\* whether stop commands are configured.
StartConfigs ==
  {[b \in Backends |-> TRUE], [b \in Backends |-> b # "whisper"],
   [b \in Backends |-> FALSE]}
StopConfigs == {[b \in Backends |-> TRUE], [b \in Backends |-> FALSE]}
\* The backend, if any, for which the operator runs a server of their own,
\* outside the orchestrator.
ExtConfigs == {{}, {"llm"}, {"whisper"}}

\* settings.<name>_model_name: the configured default model of each backend.
DefaultModel == [b \in Backends |->
                   CASE b = "llm" -> "m1.gguf"
                     [] b = "whisper" -> "whisper-1"
                     [] OTHER -> "sd"]

Callers == {"p", "q", "r"}

\* ---------------------------------------------------------------- results
OK == "ok"
InvalidBackend == "InvalidBackend"          \* ValueError, line 186
InvalidModel == "InvalidModel"              \* ValueError, _safe_filename
AutoSwitchDisabled == "AutoSwitchDisabled"  \* RuntimeError, line 225
BackendUnavailable == "BackendUnavailable"  \* RuntimeError, lines 234, 251
BackendTimeout == "BackendTimeout"          \* RuntimeError, line 386
StopError == "StopError"      \* subprocess.TimeoutExpired / OSError in _stop_one
LaunchError == "LaunchError"  \* OSError raised by subprocess.Popen

VARIABLES
  \* BackendManager fields
  activeBackend,   \* self._active_backend
  busy,            \* self._busy
  process,         \* desc.process of each backend: None, a live or an exited Popen
  currentModel,    \* desc.current_model of each backend
  lockOwner,       \* self._lock: the coroutine holding it, or None
  waiters,         \* self._lock: coroutines queued on it, oldest first
  \* settings (read at start, constant afterwards)
  autoSwitch,      \* settings.auto_switch_backend
  hasStart,        \* bool(desc.get_start_command())
  hasStop,         \* bool(desc.get_stop_command())
  \* the environment
  ext,             \* ext[b]: the operator's own server for b: "none" (there is
                   \* none), "up" (it answers on b's URL) or "down"
  \* each caller's coroutine
  pc,              \* where the coroutine is
  call,            \* the call's operation and arguments
  idx,             \* position of the stop-others loop in Order
  log,             \* what the call has done so far (probes, stops, starts)
  result,          \* how the call ended
  snap,            \* the orchestrator's state when the call got the lock
  \* history
  adopted,         \* the active backend was activated without an owned live process
  budget,          \* calls each caller may still start
  launched,        \* the model argument each live spawned process was launched with
  \* the supervisor's and the prober's functions taken one call at a time
  unit             \* the function called, its arguments, where it is, the clock,
                   \* what it did to the outside so far, and how it ended

orch == <<activeBackend, busy, process, currentModel>>
lock == <<lockOwner, waiters>>
config == <<autoSwitch, hasStart, hasStop>>
local == <<pc, call, idx, log, result, snap>>
vars == <<activeBackend, busy, process, currentModel, lockOwner, waiters,
          autoSwitch, hasStart, hasStop, ext, pc, call, idx, log, result,
          snap, adopted, budget, launched, unit>>

NoCall == [op |-> None, target |-> None, model |-> NoModel]
NoSnap == [active |-> None, busy |-> FALSE, handles |-> {},
           models |-> [b \in Backends |-> None]]

\* no function of the supervisor or the prober is being followed
NoUnit == [fn |-> None, arg |-> <<>>, pc |-> "done", now |-> 0, trace |-> <<>>,
           out |-> [status |-> None]]

Start ==
  /\ activeBackend = None
  /\ busy = FALSE
  /\ process = [b \in Backends |-> None]
  /\ currentModel = [b \in Backends |-> None]
  /\ lockOwner = None
  /\ waiters = <<>>
  /\ autoSwitch \in BOOLEAN
  /\ hasStart \in StartConfigs
  /\ hasStop \in StopConfigs
  /\ pc = [c \in Callers |-> "idle"]
  /\ call = [c \in Callers |-> NoCall]
  /\ idx = [c \in Callers |-> 0]
  /\ log = [c \in Callers |-> <<>>]
  /\ result = [c \in Callers |-> None]
  /\ snap = [c \in Callers |-> NoSnap]
  /\ adopted = FALSE
  /\ launched = [b \in Backends |-> None]
  /\ \E S \in ExtConfigs : ext = [b \in Backends |-> IF b \in S THEN "up" ELSE "none"]

\* one caller, one call after the other
Init ==
  /\ Start
  /\ budget = [c \in Callers |-> IF c = "p" THEN MaxCalls ELSE 0]
  /\ unit = NoUnit

\* two callers whose calls overlap, in the deployment where every backend
\* has a stop command and every backend but whisper a start command
InitConc ==
  /\ Start
  /\ \A b \in Backends : hasStop[b] /\ (hasStart[b] <=> b # "whisper")
  /\ budget = [c \in Callers |->
                 IF c = "p" THEN MaxConcCalls ELSE IF c = "q" THEN 1 ELSE 0]
  /\ unit = NoUnit

\* ------------------------------------------------------------ health GET
\* r.status_code < 500
ServerError == 500

\* How client.get(url) on a health URL can end: a response with a status
\* code, a network error (connection refused, reset), or a timeout.
HttpResponses ==
  {[kind |-> "status", code |-> n] : n \in {200, 404, 500, 503}}
    \cup {[kind |-> "error", code |-> 0], [kind |-> "timeout", code |-> 0]}

\* ------------------------------------------------------------ environment
\* Something answers on b's URL: an external server or the spawned process.
Listening(b) == ext[b] = "up" \/ process[b] = "live"

\* _probe_descriptor: True iff the GET completes with a status below 500; a
\* network error, a timeout or a 5xx gives False. Nothing listening always
\* gives False (connection refused); a listening server may still fail.
Responses(b) ==
  IF Listening(b) THEN HttpResponses ELSE {[kind |-> "error", code |-> 0]}

\* a probe that takes only a status below 400 for an answer
ProbeDescriptorSuccessOnly(r) == r.kind = "status" /\ r.code < 400

\* lines 272-277: `return r.status_code < 500`, and False on any exception
ProbeDescriptor(r) ==
  IF r.kind = "status" THEN r.code < ServerError ELSE FALSE

ProbeResults(b) == {ProbeDescriptor(r) : r \in Responses(b)}

ProbeOut(r) == IF r THEN "ok" ELSE "fail"

\* ------------------------------------------------------- pure helpers
Ev(op, b, out) == [op |-> op, b |-> b, out |-> out]

\* _safe_filename: the base name must end in .gguf.
ValidModel(m) == m \in GoodModels

\* desc.process and desc.process.poll() is None
HasProcess(b) == process[b] = "live"

\* the configured default whatever model was asked for
ModelAlwaysDefault(t, m) == DefaultModel[t]

\* model_name or desc.get_model_name()
ModelOrDefault(t, m) == IF m # NoModel THEN m ELSE DefaultModel[t]

\* the swap test without the comparison with the loaded model
SwapNeededAnyModel(t, m) ==
  /\ t \in Dynamic
  /\ m # NoModel

\* the swap test without the look at supports_dynamic_model
SwapNeededAnyBackend(t, m) ==
  /\ m # NoModel
  /\ m # currentModel[t]

\* lines 198-202: the already-active branch asks for a model swap
SwapNeeded(t, m) ==
  /\ t \in Dynamic
  /\ m # NoModel
  /\ m # currentModel[t]

\* a loop over the others that ends after its first pass
NextOtherOnce(t, i) ==
  IF i > 0 THEN 0 ELSE IF Order[1] # t THEN 1 ELSE 2

\* for name, other in self._backends.items(): if name != target_backend:
\* the next position after i of a backend other than t, 0 when there is none
NextOther(t, i) ==
  LET S == {j \in (i+1)..Len(Order) : Order[j] # t}
  IN IF S = {} THEN 0 ELSE CHOOSE j \in S : \A k \in S : j <= k

\* _stop_one: what one call can do.
\*   noop         no live tracked process: return at once (with or without a
\*                stop command)
\*   stopped      stop command (if any) run, process terminated and waited
\*                for, handle cleared
\*   cmd_error    subprocess.run of the stop command raised (timeout=15
\*                expired, or the command could not be run): nothing
\*                terminated, handle kept
\*   wait_timeout process.wait(timeout=10) raised: handle kept
StopOutcomes(b) ==
  IF ~HasProcess(b) THEN {"noop"}
  ELSE {"stopped", "wait_timeout"} \cup (IF hasStop[b] THEN {"cmd_error"} ELSE {})

StopRaises(out) == out \in {"cmd_error", "wait_timeout"}

\* a stop that leaves the handle in the descriptor
ProcessAfterStopKeepsHandle(b, out) == process

ProcessAfterStop(b, out) ==
  IF out = "stopped" THEN [process EXCEPT ![b] = None] ELSE process

\* a start that does not look at the tracked process
StartOutcomesRespawn(b, m) ==
  IF ~hasStart[b] THEN {"nocmd"}
  ELSE IF b \in Dynamic /\ m # NoModel /\ ~ValidModel(m) THEN {"invalid_model"}
  ELSE {"spawned", "launch_error"}

\* _start_one (with _build_command and _safe_filename): what one call can do.
\*   alive          tracked process still alive: return True
\*   nocmd          no start command: return False
\*   invalid_model  _safe_filename raised ValueError
\*   spawned        Popen succeeded, handle stored: return True
\*   launch_error   Popen raised
StartOutcomes(b, m) ==
  IF HasProcess(b) THEN {"alive"}
  ELSE IF ~hasStart[b] THEN {"nocmd"}
  ELSE IF b \in Dynamic /\ m # NoModel /\ ~ValidModel(m) THEN {"invalid_model"}
  ELSE {"spawned", "launch_error"}

StartRaises(out) == out \in {"invalid_model", "launch_error"}
StartError(out) == IF out = "invalid_model" THEN InvalidModel ELSE LaunchError
Started(out) == out \in {"alive", "spawned"}

ProcessAfterStart(b, out) ==
  IF out = "spawned" THEN [process EXCEPT ![b] = "live"] ELSE process

\* _build_command: the model a spawned process is launched with is the
\* model_name argument for a dynamic-model backend, none otherwise
LaunchedAfterStart(b, m, out) ==
  IF out = "spawned"
  THEN [launched EXCEPT ![b] = IF b \in Dynamic THEN m ELSE NoModel]
  ELSE launched

\* a terminated process is launched with nothing any more
LaunchedAfterStop(b, out) ==
  IF out = "stopped" THEN [launched EXCEPT ![b] = None] ELSE launched

\* ------------------------------------------------------------------ lock
\* a lock that never makes anybody wait
LockFreeAlways == TRUE

\* asyncio.Lock.acquire returns at once iff the lock is free and nobody queues.
LockFree == lockOwner = None /\ waiters = <<>>

Snapshot == [active |-> activeBackend, busy |-> busy,
             handles |-> {b \in Backends : process[b] # None},
             models |-> currentModel]

\* async with self._lock: take the lock or queue for it
TryAcquire(c) ==
  IF LockFree
  THEN /\ lockOwner' = c
       /\ pc' = [pc EXCEPT ![c] = "decide"]
       /\ snap' = [snap EXCEPT ![c] = Snapshot]
       /\ UNCHANGED waiters
  ELSE /\ waiters' = Append(waiters, c)
       /\ pc' = [pc EXCEPT ![c] = "waiting"]
       /\ UNCHANGED <<lockOwner, snap>>

\* a release that wakes the waiter that queued last
WakeNewest(c) ==
  /\ pc[c] = "waiting"
  /\ lockOwner = None
  /\ waiters # <<>> /\ waiters[Len(waiters)] = c
  /\ lockOwner' = c
  /\ waiters' = SubSeq(waiters, 1, Len(waiters) - 1)
  /\ pc' = [pc EXCEPT ![c] = "decide"]
  /\ snap' = [snap EXCEPT ![c] = Snapshot]
  /\ UNCHANGED <<orch, config, ext, call, idx, log, result, adopted, budget>>
  /\ UNCHANGED <<launched, unit>>

\* Lock.release wakes the oldest waiter, which then owns the lock.
Wake(c) ==
  /\ pc[c] = "waiting"
  /\ lockOwner = None
  /\ waiters # <<>> /\ Head(waiters) = c
  /\ lockOwner' = c
  /\ waiters' = Tail(waiters)
  /\ pc' = [pc EXCEPT ![c] = "decide"]
  /\ snap' = [snap EXCEPT ![c] = Snapshot]
  /\ UNCHANGED <<orch, config, ext, call, idx, log, result, adopted, budget>>
  /\ UNCHANGED <<launched, unit>>

\* an exit from the block that releases the lock only on a normal return
FinishHoldsOnError(c, res) ==
  /\ pc' = [pc EXCEPT ![c] = "done"]
  /\ result' = [result EXCEPT ![c] = res]
  /\ lockOwner' = IF res = OK THEN None ELSE lockOwner
  /\ UNCHANGED snap

\* leaving the async with block (return or exception): the call is over
Finish(c, res) ==
  /\ pc' = [pc EXCEPT ![c] = "done"]
  /\ result' = [result EXCEPT ![c] = res]
  /\ lockOwner' = None
  /\ UNCHANGED snap

Goto(c, where) ==
  /\ pc' = [pc EXCEPT ![c] = where]
  /\ UNCHANGED <<result, snap, lockOwner>>

Logged(c, e) == log' = [log EXCEPT ![c] = Append(@, e)]

\* the call with the name looked up only once the lock is held
EnsureWithModelLockFirst(c, t, m) ==
  /\ pc[c] = "idle"
  /\ budget[c] > 0
  /\ budget' = [budget EXCEPT ![c] = @ - 1]
  /\ call' = [call EXCEPT ![c] = [op |-> "ensure", target |-> t, model |-> m]]
  /\ IF LockFree /\ t \notin Backends
     THEN /\ pc' = [pc EXCEPT ![c] = "done"]
          /\ result' = [result EXCEPT ![c] = InvalidBackend]
          /\ UNCHANGED <<lock, snap>>
     ELSE /\ TryAcquire(c)
          /\ UNCHANGED result
  /\ UNCHANGED <<orch, config, ext, idx, log, adopted>>
  /\ UNCHANGED <<launched, unit>>

\* --------------------------------------------------------------- calls
\* ensure_backend_with_model(target_backend, model_name), up to the lock
EnsureWithModel(c, t, m) ==
  /\ pc[c] = "idle"
  /\ budget[c] > 0
  /\ budget' = [budget EXCEPT ![c] = @ - 1]
  /\ call' = [call EXCEPT ![c] = [op |-> "ensure", target |-> t, model |-> m]]
  /\ IF t \notin Backends
     THEN /\ pc' = [pc EXCEPT ![c] = "done"]
          /\ result' = [result EXCEPT ![c] = InvalidBackend]
          /\ UNCHANGED <<lock, snap>>
     ELSE /\ TryAcquire(c)
          /\ UNCHANGED result
  /\ UNCHANGED <<orch, config, ext, idx, log, adopted>>
  /\ UNCHANGED <<launched, unit>>

\* ensure_backend(target_backend)
Ensure(c, t) == EnsureWithModel(c, t, NoModel)

\* activate_backend(name)
ActivateBackend(c, t) == Ensure(c, t)

\* a deactivation that forgets the active backend without taking the lock
StopActiveBackendNoGate(c) ==
  /\ pc[c] = "idle"
  /\ budget[c] > 0
  /\ budget' = [budget EXCEPT ![c] = @ - 1]
  /\ call' = [call EXCEPT ![c] = [op |-> "deactivate", target |-> None, model |-> NoModel]]
  /\ activeBackend' = None
  /\ adopted' = FALSE
  /\ pc' = [pc EXCEPT ![c] = "done"]
  /\ result' = [result EXCEPT ![c] = OK]
  /\ UNCHANGED <<busy, process, currentModel, lock, config, ext, idx, log, snap>>
  /\ UNCHANGED <<launched, unit>>

\* stop_active_backend(), up to the lock
StopActiveBackend(c) ==
  /\ pc[c] = "idle"
  /\ budget[c] > 0
  /\ budget' = [budget EXCEPT ![c] = @ - 1]
  /\ call' = [call EXCEPT ![c] = [op |-> "deactivate", target |-> None, model |-> NoModel]]
  /\ TryAcquire(c)
  /\ UNCHANGED <<orch, config, ext, idx, log, result, adopted>>
  /\ UNCHANGED <<launched, unit>>

\* the caller takes the call's outcome
Return(c) ==
  /\ pc[c] = "done"
  /\ pc' = [pc EXCEPT ![c] = "idle"]
  /\ call' = [call EXCEPT ![c] = NoCall]
  /\ log' = [log EXCEPT ![c] = <<>>]
  /\ result' = [result EXCEPT ![c] = None]
  /\ snap' = [snap EXCEPT ![c] = NoSnap]
  /\ idx' = [idx EXCEPT ![c] = 0]
  /\ UNCHANGED <<orch, lock, config, ext, adopted, budget>>
  /\ UNCHANGED <<launched, unit>>

\* get_status(): the BackendState it returns; it takes no lock and has no
\* await, so it reads the fields in one step
GetStatus ==
  LET backend == IF activeBackend = None THEN "none" ELSE activeBackend
  IN [backend |-> backend,
      model |-> IF backend \in Backends
                THEN IF currentModel[backend] # None
                     THEN currentModel[backend]
                     ELSE DefaultModel[backend]
                ELSE "",
      vram |-> "",
      busy |-> busy]

\* ------------------------------------------------- inside the lock: ensure
\* lines 239-244: mark busy and go to the first backend to stop
BeginSwitch(c) ==
  /\ busy' = TRUE
  /\ idx' = [idx EXCEPT ![c] = NextOther(call[c].target, 0)]
  /\ Goto(c, "stop_others")

\* the switch without the pre-flight check
SwitchEntryNoPreflight(c) ==
  IF ~autoSwitch
  THEN Finish(c, AutoSwitchDisabled) /\ UNCHANGED <<busy, idx>>
  ELSE BeginSwitch(c)

\* the switch without the policy check
SwitchEntryNoPolicy(c) ==
  IF ~hasStart[call[c].target]
  THEN Goto(c, "preflight_probe") /\ UNCHANGED <<busy, idx>>
  ELSE BeginSwitch(c)

\* lines 224-237: policy check, then the pre-flight check of a target
\* without a start command
SwitchEntry(c) ==
  IF ~autoSwitch
  THEN Finish(c, AutoSwitchDisabled) /\ UNCHANGED <<busy, idx>>
  ELSE IF ~hasStart[call[c].target]
  THEN Goto(c, "preflight_probe") /\ UNCHANGED <<busy, idx>>
  ELSE BeginSwitch(c)

\* the target recorded as active with its model left for later
ActivateBackendOnly(c) ==
  /\ activeBackend' = call[c].target
  /\ UNCHANGED currentModel

\* lines 258-259 (and 220-221): record the target as active
Activate(c) ==
  /\ activeBackend' = call[c].target
  /\ currentModel' = [currentModel EXCEPT ![call[c].target] =
                        ModelOrDefault(call[c].target, call[c].model)]

\* lines 197-214, 224-240: from the lock to the first await
Decide(c) ==
  /\ pc[c] = "decide" /\ call[c].op = "ensure"
  /\ LET t == call[c].target
         m == call[c].model
     IN IF activeBackend = t
        THEN /\ IF SwapNeeded(t, m)
                THEN Goto(c, "swap_stop")
                ELSE Finish(c, OK)
             /\ UNCHANGED <<busy, idx>>
        ELSE IF activeBackend = None
        THEN Goto(c, "adopt_probe") /\ UNCHANGED <<busy, idx>>
        ELSE SwitchEntry(c)
  /\ UNCHANGED <<activeBackend, process, currentModel, waiters, config, ext,
                 call, log, adopted, budget>>
  /\ UNCHANGED <<launched, unit>>

\* an adoption that does not wait for the probe's answer
AdoptProbeUnanswered(c) ==
  /\ pc[c] = "adopt_probe"
  /\ \E r \in ProbeResults(call[c].target) :
       Logged(c, Ev("probe", call[c].target, ProbeOut(r)))
  /\ Activate(c)
  /\ adopted' = TRUE
  /\ Finish(c, OK)
  /\ UNCHANGED <<busy, idx>>
  /\ UNCHANGED <<process, waiters, config, ext, call, budget>>
  /\ UNCHANGED <<launched, unit>>

\* lines 215-222: nothing active, is the target already running?
AdoptProbe(c) ==
  /\ pc[c] = "adopt_probe"
  /\ \E r \in ProbeResults(call[c].target) :
       /\ Logged(c, Ev("probe", call[c].target, ProbeOut(r)))
       /\ IF r
          THEN /\ Activate(c)
               /\ adopted' = TRUE
               /\ Finish(c, OK)
               /\ UNCHANGED <<busy, idx>>
          ELSE /\ SwitchEntry(c)
               /\ UNCHANGED <<activeBackend, currentModel, adopted>>
  /\ UNCHANGED <<process, waiters, config, ext, call, budget>>
  /\ UNCHANGED <<launched, unit>>

\* lines 231-237: the pre-flight probe of a target without a start command
PreflightProbe(c) ==
  /\ pc[c] = "preflight_probe"
  /\ \E r \in ProbeResults(call[c].target) :
       /\ Logged(c, Ev("probe", call[c].target, ProbeOut(r)))
       /\ IF r
          THEN BeginSwitch(c)
          ELSE Finish(c, BackendUnavailable) /\ UNCHANGED <<busy, idx>>
  /\ UNCHANGED <<activeBackend, process, currentModel, waiters, config, ext,
                 call, adopted, budget>>
  /\ UNCHANGED <<launched, unit>>

\* lines 242-244: one pass of the stop-others loop (try/finally: a raise
\* clears busy and leaves the lock)
StopOthers(c) ==
  /\ pc[c] = "stop_others"
  /\ LET b == Order[idx[c]]
         n == NextOther(call[c].target, idx[c])
     IN \E out \in StopOutcomes(b) :
          /\ Logged(c, Ev("stop", b, out))
          /\ process' = ProcessAfterStop(b, out)
          /\ launched' = LaunchedAfterStop(b, out)
          /\ IF StopRaises(out)
             THEN Finish(c, StopError) /\ busy' = FALSE /\ UNCHANGED idx
             ELSE /\ idx' = [idx EXCEPT ![c] = n]
                  /\ Goto(c, IF n = 0 THEN "start" ELSE "stop_others")
                  /\ UNCHANGED busy
  /\ UNCHANGED <<activeBackend, currentModel, waiters, config, ext, call,
                 adopted, budget>>
  /\ UNCHANGED unit

\* a start of the target outside the try/finally: a raise leaves busy set
StartTargetNoFinally(c) ==
  /\ pc[c] = "start"
  /\ LET t == call[c].target
     IN \E out \in StartOutcomes(t, call[c].model) :
          /\ Logged(c, Ev("start", t, out))
          /\ process' = ProcessAfterStart(t, out)
          /\ launched' = LaunchedAfterStart(t, call[c].model, out)
          /\ IF StartRaises(out)
             THEN Finish(c, StartError(out))
             ELSE Goto(c, IF Started(out) THEN "wait_ready" ELSE "reprobe")
  /\ UNCHANGED <<activeBackend, busy, currentModel, waiters, config, ext, call,
                 idx, adopted, budget>>
  /\ UNCHANGED unit

\* line 246: start the target
StartTarget(c) ==
  /\ pc[c] = "start"
  /\ LET t == call[c].target
     IN \E out \in StartOutcomes(t, call[c].model) :
          /\ Logged(c, Ev("start", t, out))
          /\ process' = ProcessAfterStart(t, out)
          /\ launched' = LaunchedAfterStart(t, call[c].model, out)
          /\ IF StartRaises(out)
             THEN Finish(c, StartError(out)) /\ busy' = FALSE
             ELSE /\ Goto(c, IF Started(out) THEN "wait_ready" ELSE "reprobe")
                  /\ UNCHANGED busy
  /\ UNCHANGED <<activeBackend, currentModel, waiters, config, ext, call,
                 idx, adopted, budget>>
  /\ UNCHANGED unit

\* lines 249-254, 258-263: nothing was started, is the target running?
Reprobe(c) ==
  /\ pc[c] = "reprobe"
  /\ \E r \in ProbeResults(call[c].target) :
       /\ Logged(c, Ev("probe", call[c].target, ProbeOut(r)))
       /\ IF r
          THEN Activate(c) /\ adopted' = TRUE /\ Finish(c, OK)
          ELSE /\ Finish(c, BackendUnavailable)
               /\ UNCHANGED <<activeBackend, currentModel, adopted>>
  /\ busy' = FALSE
  /\ UNCHANGED <<process, waiters, config, ext, call, idx, budget>>
  /\ UNCHANGED <<launched, unit>>

\* _wait_ready: returns on the first probe below 500, raises when the
\* deadline passes first
WaitReadyResults(b) == IF Listening(b) THEN {"ok", "timeout"} ELSE {"timeout"}

\* the readiness wait with its deadline not enforced
WaitReadyUnchecked(c) ==
  /\ pc[c] = "wait_ready"
  /\ \E r \in WaitReadyResults(call[c].target) :
       Logged(c, Ev("wait", call[c].target, r))
  /\ Activate(c) /\ adopted' = FALSE /\ Finish(c, OK)
  /\ busy' = FALSE
  /\ UNCHANGED <<process, waiters, config, ext, call, idx, budget>>
  /\ UNCHANGED <<launched, unit>>

\* the target recorded before the wait for it is over
WaitReadyRecordsFirst(c) ==
  /\ pc[c] = "wait_ready"
  /\ \E r \in WaitReadyResults(call[c].target) :
       /\ Logged(c, Ev("wait", call[c].target, r))
       /\ Finish(c, IF r = "ok" THEN OK ELSE BackendTimeout)
  /\ Activate(c) /\ adopted' = FALSE
  /\ busy' = FALSE
  /\ UNCHANGED <<process, waiters, config, ext, call, idx, budget>>
  /\ UNCHANGED <<launched, unit>>

\* lines 256-263: wait for the started target, then record it
WaitReady(c) ==
  /\ pc[c] = "wait_ready"
  /\ \E r \in WaitReadyResults(call[c].target) :
       /\ Logged(c, Ev("wait", call[c].target, r))
       /\ IF r = "ok"
          THEN Activate(c) /\ adopted' = FALSE /\ Finish(c, OK)
          ELSE /\ Finish(c, BackendTimeout)
               /\ UNCHANGED <<activeBackend, currentModel, adopted>>
  /\ busy' = FALSE
  /\ UNCHANGED <<process, waiters, config, ext, call, idx, budget>>
  /\ UNCHANGED <<launched, unit>>

\* line 207: model swap, stop the active target
SwapStop(c) ==
  /\ pc[c] = "swap_stop"
  /\ LET t == call[c].target
     IN \E out \in StopOutcomes(t) :
          /\ Logged(c, Ev("stop", t, out))
          /\ process' = ProcessAfterStop(t, out)
          /\ launched' = LaunchedAfterStop(t, out)
          /\ IF StopRaises(out)
             THEN Finish(c, StopError)
             ELSE Goto(c, "swap_start")
  /\ UNCHANGED <<activeBackend, busy, currentModel, waiters, config, ext,
                 call, idx, adopted, budget>>
  /\ UNCHANGED unit

\* line 208: model swap, start the target with the new model (the returned
\* flag is not read)
SwapStart(c) ==
  /\ pc[c] = "swap_start"
  /\ LET t == call[c].target
     IN \E out \in StartOutcomes(t, call[c].model) :
          /\ Logged(c, Ev("start", t, out))
          /\ process' = ProcessAfterStart(t, out)
          /\ launched' = LaunchedAfterStart(t, call[c].model, out)
          /\ IF StartRaises(out)
             THEN Finish(c, StartError(out))
             ELSE Goto(c, "swap_wait")
  /\ UNCHANGED <<activeBackend, busy, currentModel, waiters, config, ext,
                 call, idx, adopted, budget>>
  /\ UNCHANGED unit

\* lines 209-211: model swap, wait for the target and record the model
SwapWait(c) ==
  /\ pc[c] = "swap_wait"
  /\ LET t == call[c].target
     IN \E r \in WaitReadyResults(t) :
          /\ Logged(c, Ev("wait", t, r))
          /\ IF r = "ok"
             THEN /\ currentModel' = [currentModel EXCEPT ![t] = call[c].model]
                  /\ Finish(c, OK)
             ELSE Finish(c, BackendTimeout) /\ UNCHANGED currentModel
  /\ UNCHANGED <<activeBackend, busy, process, waiters, config, ext, call,
                 idx, adopted, budget>>
  /\ UNCHANGED <<launched, unit>>

\* ------------------------------------- inside the lock: stop_active_backend
\* lines 170-173, from the lock to the first await
DecideStop(c) ==
  /\ pc[c] = "decide" /\ call[c].op = "deactivate"
  /\ IF activeBackend # None /\ activeBackend \in Backends
     THEN Goto(c, "deact_stop") /\ UNCHANGED <<activeBackend, adopted>>
     ELSE activeBackend' = None /\ adopted' = FALSE /\ Finish(c, OK)
  /\ UNCHANGED <<busy, process, currentModel, waiters, config, ext, call,
                 idx, log, budget>>
  /\ UNCHANGED <<launched, unit>>

\* the stop of the active backend, leaving the status word "none" in
\* _active_backend instead of None
DeactStopStatusName(c) ==
  /\ pc[c] = "deact_stop"
  /\ \E out \in StopOutcomes(activeBackend) :
       /\ Logged(c, Ev("stop", activeBackend, out))
       /\ process' = ProcessAfterStop(activeBackend, out)
       /\ launched' = LaunchedAfterStop(activeBackend, out)
       /\ IF StopRaises(out)
          THEN Finish(c, StopError) /\ UNCHANGED <<activeBackend, adopted>>
          ELSE activeBackend' = "none" /\ adopted' = FALSE /\ Finish(c, OK)
  /\ UNCHANGED <<busy, currentModel, waiters, config, ext, call, idx,
                 budget>>
  /\ UNCHANGED unit

\* the stop of the active backend, which stays recorded as active
DeactStopKeepsActive(c) ==
  /\ pc[c] = "deact_stop"
  /\ \E out \in StopOutcomes(activeBackend) :
       /\ Logged(c, Ev("stop", activeBackend, out))
       /\ process' = ProcessAfterStop(activeBackend, out)
       /\ launched' = LaunchedAfterStop(activeBackend, out)
       /\ Finish(c, IF StopRaises(out) THEN StopError ELSE OK)
  /\ UNCHANGED <<activeBackend, adopted, busy, currentModel, waiters, config,
                 ext, call, idx, budget>>
  /\ UNCHANGED unit

\* the stop of the active backend taking every other process with it
DeactStopAll(c) ==
  /\ pc[c] = "deact_stop"
  /\ \E out \in StopOutcomes(activeBackend) :
       /\ Logged(c, Ev("stop", activeBackend, out))
       /\ IF StopRaises(out)
          THEN /\ Finish(c, StopError)
               /\ UNCHANGED <<activeBackend, adopted, process, launched>>
          ELSE /\ activeBackend' = None /\ adopted' = FALSE /\ Finish(c, OK)
               /\ process' = [b \in Backends |-> None]
               /\ launched' = [b \in Backends |-> None]
  /\ UNCHANGED <<busy, currentModel, waiters, config, ext, call, idx,
                 budget>>
  /\ UNCHANGED unit

\* lines 172-173: stop the active backend, then forget it
DeactStop(c) ==
  /\ pc[c] = "deact_stop"
  /\ \E out \in StopOutcomes(activeBackend) :
       /\ Logged(c, Ev("stop", activeBackend, out))
       /\ process' = ProcessAfterStop(activeBackend, out)
       /\ launched' = LaunchedAfterStop(activeBackend, out)
       /\ IF StopRaises(out)
          THEN Finish(c, StopError) /\ UNCHANGED <<activeBackend, adopted>>
          ELSE activeBackend' = None /\ adopted' = FALSE /\ Finish(c, OK)
  /\ UNCHANGED <<busy, currentModel, waiters, config, ext, call, idx, 
                 budget>>
  /\ UNCHANGED unit

\* ------------------------------------------------------------ environment
\* a spawned process exits on its own; its handle stays in the descriptor
ProcExit(b) ==
  /\ process[b] = "live"
  /\ process' = [process EXCEPT ![b] = "dead"]
  /\ launched' = [launched EXCEPT ![b] = None]
  /\ UNCHANGED <<activeBackend, busy, currentModel, lock, config, ext, local,
                 adopted, budget>>
  /\ UNCHANGED unit

\* the operator brings their server for b up
ExtStart(b) ==
  /\ ext[b] = "down"
  /\ ext' = [ext EXCEPT ![b] = "up"]
  /\ UNCHANGED <<orch, lock, config, local, adopted, budget>>
  /\ UNCHANGED <<launched, unit>>

\* the operator's server for b goes away
ExtStop(b) ==
  /\ ext[b] = "up"
  /\ ext' = [ext EXCEPT ![b] = "down"]
  /\ UNCHANGED <<orch, lock, config, local, adopted, budget>>
  /\ UNCHANGED <<launched, unit>>

Next ==
  \/ \E c \in Callers, a \in CallArgs : EnsureWithModel(c, a[1], a[2])
  \/ \E c \in Callers, t \in TargetNames : Ensure(c, t)
  \/ \E c \in Callers, t \in TargetNames : ActivateBackend(c, t)
  \/ \E c \in Callers : StopActiveBackend(c)
  \/ \E c \in Callers : Decide(c)
  \/ \E c \in Callers : AdoptProbe(c)
  \/ \E c \in Callers : PreflightProbe(c)
  \/ \E c \in Callers : StopOthers(c)
  \/ \E c \in Callers : StartTarget(c)
  \/ \E c \in Callers : Reprobe(c)
  \/ \E c \in Callers : WaitReady(c)
  \/ \E c \in Callers : SwapStop(c)
  \/ \E c \in Callers : SwapStart(c)
  \/ \E c \in Callers : SwapWait(c)
  \/ \E c \in Callers : DecideStop(c)
  \/ \E c \in Callers : DeactStop(c)
  \/ \E c \in Callers : Return(c)
  \/ \E b \in Backends : ProcExit(b)
  \/ \E b \in Backends : ExtStart(b)
  \/ \E b \in Backends : ExtStop(b)

Spec == Init /\ [][Next]_vars

\* with a second caller, a call may have to queue for the lock
NextConc ==
  \/ Next
  \/ \E c \in Callers : Wake(c)

SpecConc == InitConc /\ [][NextConc]_vars

\* three callers with one call each, so that two of them can queue for the
\* lock behind the third, in the deployment with auto-switch enabled, a
\* start command for every backend but whisper, no stop command, and the
\* operator running a whisper server of their own
InitQueue ==
  /\ Start
  /\ autoSwitch
  /\ \A b \in Backends : ~hasStop[b] /\ (hasStart[b] <=> b # "whisper")
  /\ \A b \in Backends : ext[b] = "up" <=> b = "whisper"
  /\ budget = [c \in Callers |-> 1]
  /\ unit = NoUnit

\* the callers of main.py's /v1/audio route and of the UI: ensure_backend
\* and stop_active_backend, no model argument
NextQueue ==
  \/ \E c \in Callers, t \in Backends : Ensure(c, t)
  \/ \E c \in Callers : StopActiveBackend(c)
  \/ \E c \in Callers : Wake(c)
  \/ \E c \in Callers : Decide(c)
  \/ \E c \in Callers : AdoptProbe(c)
  \/ \E c \in Callers : PreflightProbe(c)
  \/ \E c \in Callers : StopOthers(c)
  \/ \E c \in Callers : StartTarget(c)
  \/ \E c \in Callers : Reprobe(c)
  \/ \E c \in Callers : WaitReady(c)
  \/ \E c \in Callers : DecideStop(c)
  \/ \E c \in Callers : DeactStop(c)
  \/ \E c \in Callers : Return(c)
  \/ \E b \in Backends : ProcExit(b)
  \/ \E b \in Backends : ExtStart(b)
  \/ \E b \in Backends : ExtStop(b)

SpecQueue == InitQueue /\ [][NextQueue]_vars

\* the steps of caller c's coroutine from the lock to the end of its call
Steps(c) ==
  \/ Wake(c)
  \/ Decide(c)
  \/ AdoptProbe(c)
  \/ PreflightProbe(c)
  \/ StopOthers(c)
  \/ StartTarget(c)
  \/ Reprobe(c)
  \/ WaitReady(c)
  \/ SwapStop(c)
  \/ SwapStart(c)
  \/ SwapWait(c)
  \/ DecideStop(c)
  \/ DeactStop(c)

\* The event loop runs every coroutine that is ready, and every await inside
\* the lock comes back: subprocess.run has timeout=15, process.wait
\* timeout=10, the probe's GET timeout=3.0, and _wait_ready gives up at its
\* deadline. At most one coroutine is ready at a time (the lock holder, or
\* the woken waiter when the lock is free), so one fairness condition on the
\* ready coroutine's step covers them all.
SpecLive ==
  InitConc /\ [][NextConc]_vars /\ WF_vars(\E c \in Callers : Steps(c))

\* ------------------------------------- the supervisor, one call at a time
\* everything but unit
mainVars == <<activeBackend, busy, process, currentModel, lockOwner, waiters,
              autoSwitch, hasStart, hasStop, ext, pc, call, idx, log, result,
              snap, adopted, budget, launched>>

\* an orchestrator at rest, in the deployment with every command configured
Rest ==
  /\ Start
  /\ autoSwitch
  /\ \A b \in Backends : hasStart[b] /\ hasStop[b] /\ ext[b] = "none"
  /\ budget = [c \in Callers |-> 0]

\* a call of fn with argument a, about to run
UnitCall(fn, a) ==
  [fn |-> fn, arg |-> a, pc |-> "call", now |-> 0, trace |-> <<>>,
   out |-> [status |-> None]]

UnitStep(where, ev) ==
  unit' = [unit EXCEPT !.pc = where, !.trace = Append(@, ev)]

UnitReturn(ev, value) ==
  unit' = [unit EXCEPT !.pc = "done", !.trace = @ \o ev,
                       !.out = [status |-> "returned", value |-> value]]

UnitRaise(ev, error) ==
  unit' = [unit EXCEPT !.pc = "done", !.trace = @ \o ev,
                       !.out = [status |-> "raised", value |-> error]]

\* _stop_one(desc): desc.process is None, a live or an exited Popen, and a
\* stop command is configured or not
StopOneCalls ==
  {UnitCall("_stop_one", [handle |-> h, has_stop_cmd |-> s]) :
     h \in {None, "live", "dead"}, s \in BOOLEAN}

\* a stop that runs the stop command whenever one is configured
StopOneBeginCommandAnyway ==
  /\ unit.fn = "_stop_one" /\ unit.pc = "call"
  /\ LET has_process == unit.arg.handle = "live"
     IN IF ~has_process /\ ~unit.arg.has_stop_cmd
        THEN UnitReturn(<<>>, unit.arg.handle)
        ELSE unit' = [unit EXCEPT !.pc = IF unit.arg.has_stop_cmd
                                         THEN "run_stop_cmd" ELSE "terminate"]
  /\ UNCHANGED mainVars

\* lines 305-315: nothing to do without a live tracked process
StopOneBegin ==
  /\ unit.fn = "_stop_one" /\ unit.pc = "call"
  /\ LET has_process == unit.arg.handle = "live"
     IN IF ~has_process
        THEN UnitReturn(<<>>, unit.arg.handle)
        ELSE unit' = [unit EXCEPT !.pc = IF unit.arg.has_stop_cmd
                                         THEN "run_stop_cmd" ELSE "terminate"]
  /\ UNCHANGED mainVars

\* lines 317-322: subprocess.run of the stop command, which returns whatever
\* the command's exit status (check=False), or raises (timeout=15 expired,
\* command not found)
StopOneRunCommand ==
  /\ unit.fn = "_stop_one" /\ unit.pc = "run_stop_cmd"
  /\ \/ UnitStep("terminate", "run_stop_cmd")
     \/ UnitRaise(<<"run_stop_cmd">>, "TimeoutExpired")
  /\ UNCHANGED mainVars

\* lines 324-328: terminate, wait up to 10 s, clear the handle
StopOneTerminate ==
  /\ unit.fn = "_stop_one" /\ unit.pc = "terminate"
  /\ \/ UnitReturn(<<"terminate", "wait">>, None)
     \/ UnitRaise(<<"terminate", "wait">>, "TimeoutExpired")
  /\ UNCHANGED mainVars

\* _build_command. A token of a command line is a tuple of strings: <<w>>
\* for a word, <<dir, stem, ext>> for a file path. A model name is a path
\* <<dir, stem, ext>> (dir "" when the name has no directory part), or <<>>
\* for None and "".
MaxCmdLen == 3
ModelFlag == <<"--model">>
CmdTokens == {<<"llama-server">>, ModelFlag, <<"", "old", ".gguf">>}
ModelsDir == "models"       \* settings.models_dir
NoModelName == <<>>
ModelNames ==
  {NoModelName, <<"", "m2", ".gguf">>, <<"../up", "m3", ".GGUF">>,
   <<"", "notes", ".txt">>}

\* str.lower on a file extension
Lower(s) == IF s = ".GGUF" THEN ".gguf" ELSE s

\* os.path.basename
Basename(name) == <<name[2], name[3]>>

\* os.path.join(settings.models_dir, safe_name)
JoinPath(dir, filename) == <<dir, filename[1], filename[2]>>

\* _safe_filename: the base name when it ends in .gguf whatever the case
\* ("." and ".." do not end in .gguf), else ValueError
SafeFilenameRaises(name) == Lower(Basename(name)[2]) # ".gguf"
SafeFilename(name) == Basename(name)

\* base.index("--model"): the first position of the flag, 0 when absent
IndexOfModelFlag(base) ==
  LET S == {i \in 1..Len(base) : base[i] = ModelFlag}
  IN IF S = {} THEN 0 ELSE CHOOSE i \in S : \A j \in S : i <= j

\* lines 340-355: the command to launch
BuildCommandRaises(dynamic, base, model_name) ==
  dynamic /\ model_name # NoModelName /\ SafeFilenameRaises(model_name)

BuildCommand(dynamic, base, model_name) ==
  IF ~dynamic \/ model_name = NoModelName
  THEN base
  ELSE LET model_path == JoinPath(ModelsDir, SafeFilename(model_name))
           i == IndexOfModelFlag(base)
       IN IF i > 0 /\ i < Len(base)
          THEN [base EXCEPT ![i + 1] = model_path]
          ELSE base \o <<ModelFlag, model_path>>

\* the token lists of up to MaxCmdLen tokens
CmdLines == UNION {[1..n -> CmdTokens] : n \in 0..MaxCmdLen}

BuildCommandCalls ==
  {UnitCall("_build_command", [dynamic |-> d, base |-> b, model_name |-> m]) :
     d \in BOOLEAN, b \in CmdLines, m \in ModelNames}

\* one call of _build_command
BuildCommandCall ==
  /\ unit.fn = "_build_command" /\ unit.pc = "call"
  /\ LET a == unit.arg
     IN IF BuildCommandRaises(a.dynamic, a.base, a.model_name)
        THEN UnitRaise(<<>>, <<<<"InvalidModel">>>>)
        ELSE UnitReturn(<<>>, BuildCommand(a.dynamic, a.base, a.model_name))
  /\ UNCHANGED mainVars

\* _wait_ready. Time is counted in quarters of a second.
PollInterval == 2       \* asyncio.sleep(0.5)
MaxTimeout == 5         \* settings.switch_timeout_seconds goes up to this
MaxGetTime == 2         \* a GET takes from 1 up to this (at most timeout=5.0)

WaitReadyCalls ==
  {UnitCall("_wait_ready", [timeout |-> t]) : t \in 0..MaxTimeout}

\* line 371: deadline = time.time() + settings.switch_timeout_seconds, with
\* the clock at 0 when the call starts
Deadline == unit.arg.timeout

\* lines 371-377: compute the deadline, open the client
PollBegin ==
  /\ unit.fn = "_wait_ready" /\ unit.pc = "call"
  /\ unit' = [unit EXCEPT !.pc = "loop"]
  /\ UNCHANGED mainVars

\* lines 378, 386-388: while time.time() < deadline, else raise
PollCheckDeadline ==
  /\ unit.fn = "_wait_ready" /\ unit.pc = "loop"
  /\ IF unit.now < Deadline
     THEN unit' = [unit EXCEPT !.pc = "get"]
     ELSE UnitRaise(<<>>, "BackendTimeout")
  /\ UNCHANGED mainVars

\* a GET whose every response ends the wait
PollGetAnyStatus ==
  /\ unit.fn = "_wait_ready" /\ unit.pc = "get"
  /\ \E r \in HttpResponses, d \in 1..MaxGetTime :
       LET ev == [ev |-> "get", at |-> unit.now, resp |-> r]
           u == [unit EXCEPT !.now = @ + d, !.trace = Append(@, ev)]
       IN IF r.kind = "status"
          THEN unit' = [u EXCEPT !.pc = "done",
                                 !.out = [status |-> "returned", value |-> None]]
          ELSE unit' = [u EXCEPT !.pc = "sleep"]
  /\ UNCHANGED mainVars

\* lines 379-385: one GET; a status below 500 returns, a status from 500
\* goes back to the loop test, an exception goes to the sleep
PollGet ==
  /\ unit.fn = "_wait_ready" /\ unit.pc = "get"
  /\ \E r \in HttpResponses, d \in 1..MaxGetTime :
       LET ev == [ev |-> "get", at |-> unit.now, resp |-> r]
           u == [unit EXCEPT !.now = @ + d, !.trace = Append(@, ev)]
       IN IF r.kind = "status"
          THEN IF r.code < ServerError
               THEN unit' = [u EXCEPT !.pc = "done",
                                      !.out = [status |-> "returned", value |-> None]]
               ELSE unit' = [u EXCEPT !.pc = "loop"]
          ELSE unit' = [u EXCEPT !.pc = "sleep"]
  /\ UNCHANGED mainVars

\* line 385: await asyncio.sleep(0.5)
PollSleep ==
  /\ unit.fn = "_wait_ready" /\ unit.pc = "sleep"
  /\ LET ev == [ev |-> "sleep", at |-> unit.now,
                resp |-> [kind |-> None, code |-> 0]]
     IN unit' = [unit EXCEPT !.pc = "loop", !.now = @ + PollInterval,
                             !.trace = Append(@, ev)]
  /\ UNCHANGED mainVars

\* one call of _stop_one, _build_command or _wait_ready on its own
InitUnit ==
  /\ Rest
  /\ unit \in StopOneCalls \cup BuildCommandCalls \cup WaitReadyCalls

NextUnit ==
  \/ StopOneBegin
  \/ StopOneRunCommand
  \/ StopOneTerminate
  \/ BuildCommandCall
  \/ PollBegin
  \/ PollCheckDeadline
  \/ PollGet
  \/ PollSleep

SpecUnit == InitUnit /\ [][NextUnit]_vars

\* ------------------------------------------------- get_all_backends_info
\* One call of get_all_backends_info() while ensure_backend and
\* stop_active_backend calls go on. It is a plain function without awaits,
\* taken here as called on the event loop's thread: no coroutine runs while
\* it does, but _stop_one and _start_one run in worker threads
\* (asyncio.to_thread) and assign desc.process at any point of it, and a
\* process may exit. `desc.process and desc.process.poll() is None` reads
\* the field twice, so the two reads are two steps.
InfoCall == UnitCall("get_all_backends_info", <<>>)

\* the backend the loop of line 148 is at: one entry is appended per backend
InfoAt == Order[Len(unit.trace) + 1]

\* lines 152-160: the entry of the backend the loop is at
InfoEntry(running) ==
  [name |-> InfoAt,
   active |-> activeBackend = InfoAt,
   running |-> running,
   model |-> IF currentModel[InfoAt] # None
             THEN currentModel[InfoAt] ELSE DefaultModel[InfoAt],
   has_start_command |-> hasStart[InfoAt],
   has_stop_command |-> hasStop[InfoAt]]

\* result.append(...), then the next backend or `return result`
InfoAppend(running) ==
  IF Len(unit.trace) + 1 < Len(Order)
  THEN UnitStep("check", InfoEntry(running))
  ELSE UnitReturn(<<InfoEntry(running)>>, Append(unit.trace, InfoEntry(running)))

\* line 147: result = []
InfoBegin ==
  /\ unit.fn = "get_all_backends_info" /\ unit.pc = "call"
  /\ unit' = [unit EXCEPT !.pc = "check"]
  /\ UNCHANGED mainVars

\* line 150, left operand: the first read of desc.process, tested for truth
InfoCheck ==
  /\ unit.fn = "get_all_backends_info" /\ unit.pc = "check"
  /\ IF process[InfoAt] # None
     THEN unit' = [unit EXCEPT !.pc = "poll"]
     ELSE InfoAppend(FALSE)
  /\ UNCHANGED mainVars

\* line 150, right operand: the second read of desc.process and .poll() on
\* what it gives; None has no poll (AttributeError)
InfoPoll ==
  /\ unit.fn = "get_all_backends_info" /\ unit.pc = "poll"
  /\ IF process[InfoAt] = None
     THEN UnitRaise(<<>>, "AttributeError")
     ELSE InfoAppend(process[InfoAt] = "live")
  /\ UNCHANGED mainVars

\* get_all_backends_info is not running on the event loop's thread
LoopThreadFree == unit.pc \in {"call", "done"}

\* one caller and two calls, in the deployment with every start command, no
\* stop command and no server of the operator's own
InitInfo ==
  /\ Start
  /\ autoSwitch
  /\ \A b \in Backends : hasStart[b] /\ ~hasStop[b] /\ ext[b] = "none"
  /\ budget = [c \in Callers |-> IF c = "p" THEN 2 ELSE 0]
  /\ unit = InfoCall

NextInfo ==
  \/ InfoBegin
  \/ InfoCheck
  \/ InfoPoll
  \* worker threads and processes
  \/ \E c \in Callers : StopOthers(c)
  \/ \E c \in Callers : StartTarget(c)
  \/ \E c \in Callers : DeactStop(c)
  \/ \E b \in Backends : ProcExit(b)
  \* coroutines, when the event loop's thread is free
  \/ LoopThreadFree /\ \E c \in Callers, t \in Backends : Ensure(c, t)
  \/ LoopThreadFree /\ \E c \in Callers : StopActiveBackend(c)
  \/ LoopThreadFree /\ \E c \in Callers : Decide(c)
  \/ LoopThreadFree /\ \E c \in Callers : AdoptProbe(c)
  \/ LoopThreadFree /\ \E c \in Callers : WaitReady(c)
  \/ LoopThreadFree /\ \E c \in Callers : DecideStop(c)
  \/ LoopThreadFree /\ \E c \in Callers : Return(c)

SpecInfo == InitInfo /\ [][NextInfo]_vars

\* ----------------------------------------------------------------- claims
\* the coroutine is inside `async with self._lock`
InTransition(c) ==
  pc[c] \in {"decide", "adopt_probe", "preflight_probe", "stop_others", "start",
             "reprobe", "wait_ready", "swap_stop", "swap_start", "swap_wait",
             "deact_stop"}

IsEnsure(c) == call[c].op = "ensure" /\ call[c].target \in Backends

\* the backends other than the call's target
Others(c) == Backends \ {call[c].target}

Events(c) == {log[c][i] : i \in 1..Len(log[c])}

\* the call's probes and readiness waits of its target that were answered
ProbedReady(c) ==
  \E e \in Events(c) :
    e.op \in {"probe", "wait"} /\ e.b = call[c].target /\ e.out = "ok"

\* the call's stops that terminated a process, and its spawns, in order
IsEffect(e) ==
  \/ e.op = "stop" /\ e.out = "stopped"
  \/ e.op = "start" /\ e.out = "spawned"
Effects(c) == SelectSeq(log[c], IsEffect)

\* the call ran _stop_one or _start_one at all
Touched(c) == \E e \in Events(c) : e.op \in {"stop", "start"}

Live == {b \in Backends : process[b] = "live"}

\* C1: at most one caller is inside its probe/stop/start/wait-ready sequence
\* at a time, and that caller is the one holding the lock; every other
\* caller is idle, queued or finished, places where it neither probes, stops,
\* starts nor writes.
C1_OneTransition ==
  \A c \in Callers :
    InTransition(c) =>
      /\ lockOwner = c
      /\ \A d \in Callers \ {c} : ~InTransition(d)

\* a caller queues while another is between its stops and its start
C1_Witness ==
  \E c, d \in Callers :
    /\ pc[c] = "start"
    /\ \A b \in Others(c) : \E e \in Events(c) : e.op = "stop" /\ e.b = b
    /\ pc[d] = "waiting" /\ waiters = <<d>>

\* C2 (as claimed): two different backends never both hold a live spawned
\* process.
C2_OneLiveProcess == Cardinality(Live) <= 1

\* C3 (as claimed): every ensure call that returns successfully had its
\* target answer a health probe during the call.
C3_ProbedInCall ==
  \A c \in Callers :
    (pc[c] = "done" /\ IsEnsure(c) /\ result[c] = OK) => ProbedReady(c)

\* C3 (amended): when an ensure call returns successfully its target is the
\* active backend, and the target answered a health probe during the call
\* unless it was already the active backend when the call took the lock and
\* no model swap was due, in which case the call did nothing at all.
C3_ActiveAndProbedUnlessAlreadyActive ==
  [][\A c \in Callers :
       (pc[c] # "done" /\ pc'[c] = "done" /\ result'[c] = OK
          /\ call'[c].op = "ensure")
       => /\ activeBackend' = call'[c].target
          /\ \/ \E i \in 1..Len(log'[c]) :
                  /\ log'[c][i].op \in {"probe", "wait"}
                  /\ log'[c][i].b = call'[c].target
                  /\ log'[c][i].out = "ok"
             \/ /\ snap[c].active = call'[c].target
                /\ log'[c] = <<>>]_vars

\* a switch that spawned the target and saw it become ready
C3_Witness ==
  \E c \in Callers :
    /\ pc[c] = "done" /\ IsEnsure(c) /\ result[c] = OK
    /\ activeBackend = call[c].target
    /\ process[call[c].target] = "live"
    /\ Ev("start", call[c].target, "spawned") \in Events(c)
    /\ Ev("wait", call[c].target, "ok") \in Events(c)

\* C4: ensure(X) with X active, and ensureWithModel(X, m) with X active and m
\* empty or equal to X's currentModel, returns straight from the lock: nothing
\* is probed, stopped or started, and activeBackend, busy, every process handle
\* and every currentModel stay as they are.
C4_AlreadyActiveNoOp ==
  [][\A c \in Callers :
       (/\ pc[c] = "decide" /\ pc'[c] # "decide"
        /\ call[c].op = "ensure"
        /\ activeBackend = call[c].target
        /\ (call[c].model = NoModel \/ call[c].model = currentModel[call[c].target]))
       => /\ pc'[c] = "done" /\ result'[c] = OK
          /\ log'[c] = <<>>
          /\ UNCHANGED <<activeBackend, busy, process, currentModel>>]_vars

\* ensureWithModel(llm, m) returned at once because m is the loaded model
C4_Witness ==
  \E c \in Callers :
    /\ pc[c] = "done" /\ IsEnsure(c) /\ result[c] = OK
    /\ log[c] = <<>>
    /\ activeBackend = call[c].target
    /\ call[c].target \in Dynamic
    /\ call[c].model # NoModel
    /\ call[c].model = currentModel[call[c].target]
    /\ call[c].model # DefaultModel[call[c].target]

\* the call took the model-swap branch: its first step was a stop of its target
IsSwap(c) ==
  /\ IsEnsure(c)
  /\ log[c] # <<>>
  /\ log[c][1].op = "stop" /\ log[c][1].b = call[c].target

\* C5 (as claimed, for the calls that succeed): a model swap of the active
\* backend X terminates X's process exactly once, then spawns X exactly once,
\* touches no other backend, and records m as X's currentModel.
C5_SwapStopsThenStarts ==
  \A c \in Callers :
    (pc[c] = "done" /\ IsSwap(c) /\ result[c] = OK)
    => /\ Effects(c) = <<Ev("stop", call[c].target, "stopped"),
                         Ev("start", call[c].target, "spawned")>>
       /\ currentModel[call[c].target] = call[c].model

\* the call's target has no start command and never answered in the call
UnstartableUnreachable(c) ==
  /\ IsEnsure(c)
  /\ ~hasStart[call[c].target]
  /\ ~ProbedReady(c)

\* C6 (as claimed): ensure of a target without a start command that does not
\* answer its health probe fails with BackendUnavailable.
C6_UnavailableAlways ==
  \A c \in Callers :
    (pc[c] = "done" /\ UnstartableUnreachable(c)) => result[c] = BackendUnavailable

\* C6 (amended): if auto-switch is enabled, the target is not the active
\* backend, has no start command and does not answer its health probe, the
\* call fails with BackendUnavailable without having run a stop or a start,
\* and activeBackend, busy, every process handle and every currentModel are
\* the same as when the call took the lock.
C6_UnavailableBeforeAnyStop ==
  [][\A c \in Callers :
       (/\ pc[c] # "done" /\ pc'[c] = "done"
        /\ call'[c].op = "ensure" /\ call'[c].target \in Backends
        /\ ~hasStart[call'[c].target]
        /\ autoSwitch
        /\ snap[c].active # call'[c].target
        /\ \A i \in 1..Len(log'[c]) : log'[c][i].out # "ok")
       => /\ result'[c] = BackendUnavailable
          /\ \A i \in 1..Len(log'[c]) : log'[c][i].op = "probe"
          /\ activeBackend' = snap[c].active
          /\ busy' = snap[c].busy
          /\ {b \in Backends : process'[b] # None} = snap[c].handles
          /\ currentModel' = snap[c].models]_vars

\* the call failed and the running backend was left alone
C6_Witness ==
  \E c \in Callers :
    /\ pc[c] = "done" /\ UnstartableUnreachable(c)
    /\ result[c] = BackendUnavailable
    /\ activeBackend \notin {None, call[c].target}
    /\ process[activeBackend] = "live"
    /\ log[c] = <<Ev("probe", call[c].target, "fail")>>

\* C7: with auto-switch disabled and a backend Y active, an ensure call for
\* another backend fails with AutoSwitchDisabled straight from the lock:
\* nothing is probed, stopped or started, and activeBackend, busy, every
\* process handle and every currentModel stay as they are.
C7_AutoSwitchDisabledNoOp ==
  [][\A c \in Callers :
       (/\ pc[c] = "decide" /\ pc'[c] # "decide"
        /\ call[c].op = "ensure"
        /\ ~autoSwitch
        /\ activeBackend \notin {None, call[c].target})
       => /\ pc'[c] = "done" /\ result'[c] = AutoSwitchDisabled
          /\ log'[c] = <<>>
          /\ UNCHANGED <<activeBackend, busy, process, currentModel>>]_vars

C7_Witness ==
  \E c \in Callers :
    /\ pc[c] = "done" /\ IsEnsure(c)
    /\ result[c] = AutoSwitchDisabled
    /\ ~autoSwitch
    /\ activeBackend \notin {None, call[c].target}
    /\ log[c] = <<>>

\* C8 (as claimed): when the stop of one non-target backend fails during a
\* switch, the other non-target backends are still stopped and the start of
\* the target is still attempted.
C8_StopFailureDoesNotAbort ==
  \A c \in Callers :
    (/\ pc[c] = "done" /\ IsEnsure(c)
     /\ \E e \in Events(c) : e.op = "stop" /\ e.b # call[c].target /\ StopRaises(e.out))
    => /\ \A b \in Others(c) : \E e \in Events(c) : e.op = "stop" /\ e.b = b
       /\ \E e \in Events(c) : e.op = "start" /\ e.b = call[c].target

\* C9 (as claimed): a switch away from an active backend Y that stopped the
\* others (terminating Y's process) and then failed to bring the target up
\* leaves no backend active.
C9_FailedSwitchLeavesNone ==
  \A c \in Callers :
    (/\ pc[c] = "done" /\ IsEnsure(c)
     /\ snap[c].active \notin {None, call[c].target}
     /\ Ev("stop", snap[c].active, "stopped") \in Events(c)
     /\ \A b \in Others(c) :
          \E e \in Events(c) : e.op = "stop" /\ e.b = b /\ ~StopRaises(e.out)
     /\ result[c] \in {BackendTimeout, BackendUnavailable, LaunchError})
    => activeBackend = None

\* C10 (as claimed): when a switch spawns its target, no other backend that
\* was adopted as active is left running.
C10_NoAdoptedLeftRunning ==
  \A c \in Callers :
    (/\ pc[c] = "wait_ready"
     /\ Ev("start", call[c].target, "spawned") \in Events(c))
    => ~ \E y \in Others(c) :
           /\ snap[c].active = y /\ adopted
           /\ process[y] = None
           /\ ext[y] = "up"

\* the call went past the already-active branch: an adoption or a switch
IsSwitch(c) == IsEnsure(c) /\ snap[c].active # call[c].target

\* C11: in a switch, when _start_one is called for the target, _stop_one has
\* returned for every other registered backend, and no stop follows the start.
C11_StopsBeforeStart ==
  \A c \in Callers :
    IsSwitch(c) =>
      \A i \in 1..Len(log[c]) :
        log[c][i].op = "start" =>
          /\ \A b \in Others(c) :
               \E j \in 1..(i-1) :
                 /\ log[c][j].op = "stop" /\ log[c][j].b = b
                 /\ ~StopRaises(log[c][j].out)
          /\ \A j \in (i+1)..Len(log[c]) : log[c][j].op # "stop"

\* a switch terminated the running backend and then spawned its target
C11_Witness ==
  \E c \in Callers :
    /\ pc[c] = "wait_ready" /\ IsSwitch(c)
    /\ \E b \in Others(c) : Ev("stop", b, "stopped") \in Events(c)
    /\ log[c][Len(log[c])] = Ev("start", call[c].target, "spawned")

\* C12: when no backend is active and the target answers the adoption probe,
\* the call returns successfully at that step with the target active and its
\* currentModel the requested model (the configured default when none was
\* requested); no process handle changes, nothing was stopped or started,
\* busy is and stays false, and auto-switch is not consulted.
C12_AdoptionWithoutSpawn ==
  [][\A c \in Callers :
       (/\ pc[c] = "adopt_probe"
        /\ log'[c] = Append(log[c], Ev("probe", call[c].target, "ok")))
       => /\ activeBackend = None
          /\ pc'[c] = "done" /\ result'[c] = OK
          /\ activeBackend' = call[c].target
          /\ currentModel' =
               [currentModel EXCEPT ![call[c].target] =
                  IF call[c].model # NoModel THEN call[c].model
                  ELSE DefaultModel[call[c].target]]
          /\ process' = process
          /\ \A i \in 1..Len(log'[c]) : log'[c][i].op = "probe"
          /\ ~busy /\ ~busy']_vars

\* an external server was adopted with a requested model while auto-switch
\* is disabled
C12_Witness ==
  \E c \in Callers :
    /\ pc[c] = "done" /\ IsEnsure(c) /\ result[c] = OK
    /\ ~autoSwitch
    /\ snap[c].active = None
    /\ log[c] = <<Ev("probe", call[c].target, "ok")>>
    /\ activeBackend = call[c].target
    /\ call[c].model # NoModel
    /\ currentModel[call[c].target] = call[c].model
    /\ process[call[c].target] = None

\* C13 (as claimed): an ensure call whose model name does not carry the
\* .gguf extension is rejected on every path: it never returns successfully
\* (it fails with InvalidModel, or with an error raised before the model is
\* looked at), and such a name is never recorded as a currentModel.
C13_InvalidModelRejected ==
  /\ \A c \in Callers :
       (pc[c] = "done" /\ IsEnsure(c) /\ call[c].model \in BadModels)
       => result[c] # OK
  /\ \A b \in Backends : currentModel[b] \notin BadModels

\* C14: a call naming a backend that is not registered ends in the step that
\* makes it, with InvalidBackend: it neither takes nor queues for the lock,
\* and activeBackend, busy, every process handle and every currentModel stay
\* as they are, whatever another caller is doing.
C14_InvalidBackendRejected ==
  [][\A c \in Callers :
       (/\ pc[c] = "idle" /\ pc'[c] # "idle"
        /\ call'[c].op = "ensure"
        /\ call'[c].target \notin Backends)
       => /\ pc'[c] = "done" /\ result'[c] = InvalidBackend
          /\ UNCHANGED <<lockOwner, waiters>>
          /\ UNCHANGED <<activeBackend, busy, process, currentModel>>]_vars

\* a call with an unregistered name was rejected while another caller was
\* in the middle of a switch
C14_Witness ==
  \E c, d \in Callers :
    /\ pc[c] = "done" /\ call[c].op = "ensure"
    /\ call[c].target \notin Backends
    /\ result[c] = InvalidBackend
    /\ pc[d] = "start" /\ lockOwner = d /\ busy
    /\ waiters = <<>>

\* C15: when a switch has spawned a process for its target and the readiness
\* wait ends at the deadline without an answer below 500, the call fails
\* with BackendTimeout at that step and activeBackend stays what it was,
\* which is not the target.
C15_TimeoutNotRecorded ==
  [][\A c \in Callers :
       (/\ pc[c] = "wait_ready"
        /\ Ev("start", call[c].target, "spawned") \in Events(c)
        /\ log'[c] = Append(log[c], Ev("wait", call[c].target, "timeout")))
       => /\ pc'[c] = "done" /\ result'[c] = BackendTimeout
          /\ activeBackend' = activeBackend
          /\ activeBackend' # call[c].target
          /\ ~busy']_vars

\* the spawned target never answered: nothing listens on its URL
C15_Witness ==
  \E c \in Callers :
    /\ pc[c] = "done" /\ IsSwitch(c)
    /\ result[c] = BackendTimeout
    /\ Ev("start", call[c].target, "spawned") \in Events(c)
    /\ log[c][Len(log[c])] = Ev("wait", call[c].target, "timeout")
    /\ activeBackend # call[c].target

\* the coroutine is at a stop, start or readiness step of a backend switch
InSwitchSteps(c) == pc[c] \in {"stop_others", "start", "reprobe", "wait_ready"}

\* the coroutine is at the stop, start or wait step of an in-place model swap
InSwapSteps(c) == pc[c] \in {"swap_stop", "swap_start", "swap_wait"}

\* C16 (as claimed): busy is true exactly in the states in which some ensure
\* call is at a stop, start or readiness step of a switch or of an in-place
\* model swap.
C16_BusyIffInTransition ==
  busy <=> \E c \in Callers : InSwitchSteps(c) \/ InSwapSteps(c)

\* what get_status reports of the active backend and its model
StatusPair == <<GetStatus.backend, GetStatus.model>>

\* the pair a call records when it completes successfully
RecordedPair(c) ==
  IF call[c].op = "ensure"
  THEN <<call[c].target,
         IF call[c].model # NoModel THEN call[c].model
         ELSE DefaultModel[call[c].target]>>
  ELSE <<"none", "">>

\* get_status does not show what a call still in flight is working towards:
\* not the target of an adoption or a switch, not the model of a swap
StatusHidesInFlight ==
  \A c \in Callers :
    /\ (InTransition(c) /\ IsSwitch(c)) => GetStatus.backend # call[c].target
    /\ InSwapSteps(c) => StatusPair # RecordedPair(c)

\* C17: whenever it is called, get_status reports a backend and a model
\* recorded together by one completed call: the reported pair changes only
\* in the step in which a call completes successfully, and then both parts
\* are that call's; while a call is in flight its target or model is not
\* reported.
C17_StatusFromCompletedTransition ==
  [][/\ StatusHidesInFlight'
     /\ StatusPair' # StatusPair =>
          \E c \in Callers :
            /\ pc[c] # "done" /\ pc'[c] = "done" /\ result'[c] = OK
            /\ StatusPair' = RecordedPair(c)]_vars

\* one caller's switch is waiting for its target while get_status still
\* reports the backend and model recorded by the other caller's call
C17_Witness ==
  \E c, d \in Callers :
    /\ pc[d] = "wait_ready" /\ IsSwitch(d)
    /\ pc[c] = "done" /\ IsEnsure(c) /\ result[c] = OK
    /\ call[c].target # call[d].target
    /\ StatusPair = RecordedPair(c)
    /\ process[call[d].target] = "live"

\* C18: activeBackend is None or the name of a registered backend.
C18_ActiveIsRegistered == activeBackend \in Backends \cup {None}

\* a backend was made active and stop_active_backend then terminated its
\* process and cleared activeBackend
C18_Witness ==
  \E c \in Callers :
    /\ pc[c] = "done" /\ call[c].op = "deactivate" /\ result[c] = OK
    /\ snap[c].active \in Backends
    /\ log[c] = <<Ev("stop", snap[c].active, "stopped")>>
    /\ activeBackend = None

\* C19: once ensure(X) has returned successfully get_status reports backend
\* X; once stop_active_backend has returned get_status reports backend
\* "none" with an empty model, whichever backend was active when it was
\* called.
C19_StatusRoundTrip ==
  \A c \in Callers :
    (pc[c] = "done" /\ result[c] = OK) =>
      /\ IsEnsure(c) => GetStatus.backend = call[c].target
      /\ call[c].op = "deactivate" =>
           GetStatus.backend = "none" /\ GetStatus.model = ""

\* stop_active_backend returned after stopping an active backend whose model
\* had been recorded
C19_Witness ==
  \E c \in Callers :
    /\ pc[c] = "done" /\ call[c].op = "deactivate" /\ result[c] = OK
    /\ snap[c].active \in Backends
    /\ snap[c].models[snap[c].active] # None
    /\ Len(log[c]) = 1
    /\ GetStatus.backend = "none"

\* the descriptors holding a process handle
Handles == {b \in Backends : process[b] # None}

\* ensure(A) with nothing active, no handle anywhere, A startable and not
\* answering the adoption probe, has returned successfully
FirstLaunchDone(c) ==
  /\ pc[c] = "done" /\ IsEnsure(c) /\ result[c] = OK
  /\ autoSwitch /\ hasStart[call[c].target]
  /\ snap[c].active = None /\ snap[c].handles = {}
  /\ log[c] # <<>> /\ log[c][1] = Ev("probe", call[c].target, "fail")

\* ensure(B) is in its readiness wait, B startable, with A active since a
\* managed launch, A the only handle when the call took the lock and A's
\* process still running when the call came to stop it
SecondLaunchWaiting(c) ==
  /\ pc[c] = "wait_ready" /\ IsEnsure(c)
  /\ autoSwitch /\ hasStart[call[c].target]
  /\ snap[c].active \in Others(c) /\ hasStart[snap[c].active]
  /\ snap[c].handles = {snap[c].active}
  /\ ~adopted
  /\ Ev("stop", snap[c].active, "noop") \notin Events(c)

\* C20: with auto-switch enabled, a successful ensure(A) from the state with
\* nothing active and nothing running did two no-op stops, then spawned A,
\* then saw A answer, and left A active; a successful ensure(B) after it
\* terminated A's process (A's handle is None) and then spawned B, and at its
\* return B is active, B's is the only handle and B's process the only live
\* one.
C20_TwoLaunches ==
  [][/\ \A c \in Callers :
          FirstLaunchDone(c)' =>
            /\ Len(log'[c]) = 5
            /\ \A i \in {2, 3} : log'[c][i].op = "stop" /\ log'[c][i].out = "noop"
            /\ {log'[c][2].b, log'[c][3].b} = Others(c)'
            /\ log'[c][4] = Ev("start", call'[c].target, "spawned")
            /\ log'[c][5] = Ev("wait", call'[c].target, "ok")
            /\ activeBackend' = call'[c].target
     /\ \A c \in Callers :
          (SecondLaunchWaiting(c) /\ pc'[c] = "done" /\ result'[c] = OK) =>
            /\ Effects(c)' = <<Ev("stop", snap[c].active, "stopped"),
                               Ev("start", call[c].target, "spawned")>>
            /\ process'[snap[c].active] = None
            /\ activeBackend' = call[c].target
            /\ Handles' = {call[c].target}
            /\ Live' \subseteq {call[c].target}
            /\ ext[call[c].target] # "up" => Live' = {call[c].target}]_vars

\* the second launch has returned: A's process was terminated, B's runs alone
C20_Witness ==
  \E c \in Callers :
    /\ pc[c] = "done" /\ IsEnsure(c) /\ result[c] = OK
    /\ snap[c].active \in Others(c) /\ snap[c].handles = {snap[c].active}
    /\ ~adopted
    /\ Effects(c) = <<Ev("stop", snap[c].active, "stopped"),
                      Ev("start", call[c].target, "spawned")>>
    /\ activeBackend = call[c].target
    /\ Live = {call[c].target} /\ Handles = {call[c].target}
    /\ \A b \in Backends : ext[b] # "up"

C22_ModelMatchesProcess ==
  \A c \in Callers :
    (/\ pc[c] = "done" /\ IsEnsure(c) /\ result[c] = OK
     /\ call[c].target \in Dynamic /\ call[c].model # NoModel
     /\ activeBackend = call[c].target
     /\ process[call[c].target] = "live")
    => currentModel[call[c].target] = launched[call[c].target]

\* the step is a call of _start_one by caller c
StartStep(c) ==
  /\ pc[c] \in {"start", "swap_start"}
  /\ Len(log'[c]) = Len(log[c]) + 1

\* what the _start_one call of the step did
StartOut(c) == log'[c][Len(log'[c])].out

\* C23 (as claimed): _start_one returns true without spawning when the
\* tracked process is alive, returns false without spawning when there is
\* no live tracked process and no start command, and otherwise spawns one
\* process, stores its handle and returns true.
C23_StartSpawnsOtherwise ==
  [][\A c \in Callers :
       StartStep(c) =>
         LET t == call[c].target
         IN /\ HasProcess(t) => StartOut(c) = "alive" /\ process' = process
            /\ (~HasProcess(t) /\ ~hasStart[t]) =>
                 StartOut(c) = "nocmd" /\ process' = process
            /\ (~HasProcess(t) /\ hasStart[t]) =>
                 /\ StartOut(c) = "spawned"
                 /\ process' = [process EXCEPT ![t] = "live"]]_vars

\* C23 (amended): as above, except that in the third case the call raises,
\* spawning nothing and leaving the handle as it was, when the backend is a
\* dynamic-model one and the model name is not a valid file name
\* (InvalidModel), or when the launch itself fails; the value returned tells
\* the switch whether to wait for the target (true) or to probe it (false).
C23_StartSpawnsUnlessRaises ==
  [][\A c \in Callers :
       StartStep(c) =>
         LET t == call[c].target
             m == call[c].model
             bad == t \in Dynamic /\ m \in BadModels
         IN /\ HasProcess(t) => StartOut(c) = "alive" /\ process' = process
            /\ (~HasProcess(t) /\ ~hasStart[t]) =>
                 StartOut(c) = "nocmd" /\ process' = process
            /\ (~HasProcess(t) /\ hasStart[t] /\ bad) =>
                 /\ StartOut(c) = "invalid_model" /\ process' = process
                 /\ pc'[c] = "done" /\ result'[c] = InvalidModel
            /\ (~HasProcess(t) /\ hasStart[t] /\ ~bad) =>
                 \/ /\ StartOut(c) = "spawned"
                    /\ process' = [process EXCEPT ![t] = "live"]
                 \/ /\ StartOut(c) = "launch_error" /\ process' = process
                    /\ pc'[c] = "done" /\ result'[c] = LaunchError
            /\ pc[c] = "start" =>
                 /\ StartOut(c) \in {"alive", "spawned"} => pc'[c] = "wait_ready"
                 /\ StartOut(c) = "nocmd" => pc'[c] = "reprobe"]_vars

\* a switch called _start_one while the target's tracked process was still
\* alive and went on to wait for it without spawning
C23_Witness ==
  \E c \in Callers :
    /\ pc[c] = "wait_ready"
    /\ log[c][Len(log[c])] = Ev("start", call[c].target, "alive")
    /\ process[call[c].target] = "live"

\* C24: _stop_one on a descriptor without a live tracked process does nothing
\* to the outside, with or without a stop command; the stop command is run
\* only for a live tracked process, and it is then the first thing done,
\* before the process is terminated.
C24_StopCommandOnlyForLiveProcess ==
  unit.fn = "_stop_one" =>
    LET tr == unit.trace
        live == unit.arg.handle = "live"
    IN /\ ~live => tr = <<>>
       /\ \A i \in 1..Len(tr) :
            tr[i] = "run_stop_cmd" => live /\ unit.arg.has_stop_cmd /\ i = 1
       /\ \A i \in 1..Len(tr) :
            tr[i] = "terminate" =>
              IF unit.arg.has_stop_cmd
              THEN i = 2 /\ tr[1] = "run_stop_cmd"
              ELSE i = 1

\* _stop_one has returned without doing anything although a stop command
\* is configured: the tracked process had exited
C24_Witness ==
  /\ unit.fn = "_stop_one" /\ unit.pc = "done"
  /\ unit.out.status = "returned"
  /\ unit.arg.has_stop_cmd /\ unit.arg.handle = "dead"
  /\ unit.trace = <<>>

\* C25 (as claimed): once _stop_one has returned for a backend during a
\* switch, that backend's process handle is None.
C25_HandleClearedAfterStop ==
  \A c \in Callers :
    IsSwitch(c) =>
      \A e \in Events(c) :
        (e.op = "stop" /\ ~StopRaises(e.out)) => process[e.b] = None

\* the tokens of cmd that are the --model flag
FlagPositions(cmd) == {i \in 1..Len(cmd) : cmd[i] = ModelFlag}

\* C26 (as claimed): for a dynamic-model backend and a valid model name the
\* command built has --model followed by the model's path; when the
\* configured command already has a --model the command keeps its length
\* and only the token after the first --model changes, else --model and the
\* path are appended; for a non-dynamic backend or no model name the
\* configured command is returned as it is.
C26_BuildCommandPlacesModel ==
  (unit.fn = "_build_command" /\ unit.pc = "done"
     /\ unit.out.status = "returned") =>
    LET base == unit.arg.base
        cmd == unit.out.value
        name == unit.arg.model_name
    IN IF ~unit.arg.dynamic \/ name = NoModelName
       THEN cmd = base
       ELSE LET path == <<ModelsDir, name[2], name[3]>>
            IN /\ \E i \in 1..(Len(cmd) - 1) :
                    cmd[i] = ModelFlag /\ cmd[i + 1] = path
               /\ IF FlagPositions(base) = {}
                  THEN cmd = base \o <<ModelFlag, path>>
                  ELSE /\ Len(cmd) = Len(base)
                       /\ \A j \in 1..Len(base) :
                            cmd[j] # base[j] =>
                              /\ j - 1 \in FlagPositions(base)
                              /\ \A k \in FlagPositions(base) : j - 1 <= k

\* the GET ended with a status below 500
Ready(r) == r.kind = "status" /\ r.code < 500

\* C28: _wait_ready returns normally exactly when a GET issued before the
\* deadline ends with a status below 500, which is then the last thing it
\* did; a GET ending in a network error, a timeout or a status from 500 does
\* not end the call; the call ends otherwise only once the deadline has
\* passed, with BackendTimeout.
C28_WaitReadyReturnsIffReady ==
  unit.fn = "_wait_ready" =>
    LET tr == unit.trace
        returned == unit.pc = "done" /\ unit.out.status = "returned"
        raised == unit.pc = "done" /\ unit.out.status = "raised"
    IN /\ \A i \in 1..Len(tr) : tr[i].ev = "get" => tr[i].at < Deadline
       /\ \A i \in 1..Len(tr) :
            (tr[i].ev = "get" /\ Ready(tr[i].resp)) => i = Len(tr) /\ returned
       /\ returned =>
            /\ tr # <<>>
            /\ tr[Len(tr)].ev = "get" /\ Ready(tr[Len(tr)].resp)
       /\ raised =>
            /\ unit.out.value = "BackendTimeout"
            /\ unit.now >= Deadline
            /\ \A i \in 1..Len(tr) : ~(tr[i].ev = "get" /\ Ready(tr[i].resp))
       /\ unit.pc = "done" => returned \/ raised

\* the wait went through a status from 500 and a network error before a
\* GET was answered below 500
C28_Witness ==
  /\ unit.fn = "_wait_ready" /\ unit.pc = "done"
  /\ unit.out.status = "returned"
  /\ \E i, j \in 1..Len(unit.trace) :
       /\ unit.trace[i].ev = "get" /\ unit.trace[i].resp.kind = "error"
       /\ unit.trace[j].ev = "get" /\ unit.trace[j].resp.code = 503
  /\ Ready(unit.trace[Len(unit.trace)].resp)

\* C29 (as claimed): in _wait_ready every GET that does not end with a status
\* below 500 is followed by a sleep of the poll interval before the next
\* GET.
C29_SleepBetweenProbes ==
  unit.fn = "_wait_ready" =>
    \A i \in 1..(Len(unit.trace) - 1) :
      (unit.trace[i].ev = "get" /\ ~Ready(unit.trace[i].resp))
      => unit.trace[i + 1].ev = "sleep"

\* C27: ensureWithModel(X, m) with X active and not a dynamic-model backend
\* returns straight from the lock whatever m is: nothing is probed, stopped
\* or started, and activeBackend, busy, every process handle and every
\* currentModel stay as they are.
C27_NonDynamicNoSwap ==
  [][\A c \in Callers :
       (/\ pc[c] = "decide" /\ pc'[c] # "decide"
        /\ call[c].op = "ensure"
        /\ activeBackend = call[c].target
        /\ call[c].target \notin Dynamic)
       => /\ pc'[c] = "done" /\ result'[c] = OK
          /\ log'[c] = <<>>
          /\ UNCHANGED <<activeBackend, busy, process, currentModel>>]_vars

\* a model other than the recorded one was asked of an active backend
\* without dynamic models, and the call returned at once
C27_Witness ==
  \E c \in Callers :
    /\ pc[c] = "done" /\ IsEnsure(c) /\ result[c] = OK
    /\ log[c] = <<>>
    /\ snap[c].active = call[c].target
    /\ call[c].target \notin Dynamic
    /\ call[c].model # NoModel
    /\ call[c].model # currentModel[call[c].target]

\* C30: _probe_descriptor returns True exactly for a GET that ends with a
\* status below 500 and False, without raising, for a network error, a
\* timeout and a status from 500; and a probe that returned False lets the
\* ensure call go on or makes it fail with AutoSwitchDisabled,
\* BackendUnavailable or BackendTimeout, nothing else.
C30_ProbeNeverRaises ==
  [][/\ \A r \in HttpResponses :
          /\ ProbeDescriptor(r) \in BOOLEAN
          /\ ProbeDescriptor(r) <=> Ready(r)
     /\ \A c \in Callers :
          (/\ pc[c] \in {"adopt_probe", "preflight_probe", "reprobe"}
           /\ log'[c] = Append(log[c], Ev("probe", call[c].target, "fail")))
          => \/ pc'[c] # "done"
             \/ result'[c] \in {AutoSwitchDisabled, BackendUnavailable,
                                 BackendTimeout}]_vars

\* a server was listening but the probe of it failed, and the call ended
\* with AutoSwitchDisabled
C30_Witness ==
  \E c \in Callers :
    /\ pc[c] = "done" /\ IsEnsure(c)
    /\ result[c] = AutoSwitchDisabled
    /\ log[c] = <<Ev("probe", call[c].target, "fail")>>
    /\ ext[call[c].target] = "up"

\* desc.process is assigned (a Popen stored or the handle cleared); a tracked
\* process exiting on its own changes the Popen object, not the field
HandleWritten ==
  \E b \in Backends :
    /\ process'[b] # process[b]
    /\ ~(process[b] = "live" /\ process'[b] = "dead")

\* C31: every step that writes activeBackend, busy, a process handle or a
\* currentModel is a step of the caller that holds the lock, taken inside
\* its `async with self._lock` block; no other caller moves in that step.
C31_WritesUnderGate ==
  [][(\/ activeBackend' # activeBackend
      \/ busy' # busy
      \/ currentModel' # currentModel
      \/ HandleWritten)
     => \E c \in Callers :
          /\ lockOwner = c
          /\ InTransition(c)
          /\ (pc'[c] # pc[c] \/ log'[c] # log[c])
          /\ \A d \in Callers \ {c} : pc'[d] = pc[d] /\ log'[d] = log[d]]_vars

\* the lock holder has set busy and stored its target's handle while the
\* other caller queues for the lock
C31_Witness ==
  \E c, d \in Callers :
    /\ lockOwner = c /\ pc[c] = "wait_ready"
    /\ busy /\ ~snap[c].busy
    /\ process[call[c].target] = "live"
    /\ call[c].target \notin snap[c].handles
    /\ pc[d] = "waiting" /\ call[d].op = "deactivate"

\* C32: transitions are ordered by lock acquisition. The queue of waiters
\* changes only by a caller joining at its tail or by its head being granted
\* the lock; a caller is granted the lock only when it is free, and then it
\* is the oldest waiter (or a newcomer when nobody waits); at that moment
\* every other caller's call is complete or has not begun its transition,
\* and the callers still waiting stay queued; and a call's probes, stops and
\* starts all happen while it holds the lock.
C32_OrderedByAcquisition ==
  [][/\ waiters' # waiters =>
          \/ \E c \in Callers :
               /\ pc[c] = "idle" /\ pc'[c] = "waiting"
               /\ waiters' = Append(waiters, c)
          \/ /\ waiters # <<>>
             /\ waiters' = Tail(waiters)
             /\ lockOwner' = Head(waiters)
     /\ \A c \in Callers :
          (lockOwner' = c /\ lockOwner # c) =>
            /\ lockOwner = None
            /\ IF waiters = <<>> THEN pc[c] = "idle" ELSE c = Head(waiters)
            /\ \A d \in Callers \ {c} :
                 /\ pc[d] \in {"idle", "waiting", "done"}
                 /\ pc[d] = "waiting" =>
                      \E i \in 1..Len(waiters') : waiters'[i] = d
     /\ \A c \in Callers :
          (log'[c] # log[c] /\ log'[c] # <<>>) => lockOwner = c]_vars

\* a switch is over and has released the lock with two callers queued
\* behind it, a deactivation ahead of an activation
C32_Witness ==
  \E c, d, e \in Callers :
    /\ pc[c] = "done" /\ IsSwitch(c) /\ result[c] = OK
    /\ Ev("start", call[c].target, "spawned") \in Events(c)
    /\ lockOwner = None
    /\ waiters = <<d, e>>
    /\ call[d].op = "deactivate" /\ call[e].op = "ensure"

\* the call's pre-flight probe of its target was answered: an answered probe
\* of the target is followed by the launch step
PreflightConfirmed(c) ==
  \E i, j \in 1..Len(log[c]) :
    /\ i < j
    /\ log[c][i] = Ev("probe", call[c].target, "ok")
    /\ log[c][j].op = "start"

\* C33 (as claimed): a switch to a target without a start command whose
\* pre-flight probe was answered spawns nothing at the launch step, makes no
\* probe after it, and completes with the target recorded as active.
C33_NoReprobeAfterConfirmedPreflight ==
  \A c \in Callers :
    (/\ pc[c] = "done" /\ IsSwitch(c)
     /\ ~hasStart[call[c].target]
     /\ PreflightConfirmed(c))
    => /\ \A e \in Events(c) : e.op = "start" => e.out = "nocmd"
       /\ \A i, j \in 1..Len(log[c]) :
            (i < j /\ log[c][i].op = "start") => log[c][j].op # "probe"
       /\ result[c] = OK
       /\ activeBackend = call[c].target

\* C34 (as claimed): an ensure call that fails with InvalidModel has
\* terminated no process, and activeBackend, busy, the process handles and
\* every currentModel are as they were when the call took the lock.
C34_InvalidModelBeforeAnyStop ==
  \A c \in Callers :
    (pc[c] = "done" /\ IsEnsure(c) /\ result[c] = InvalidModel)
    => /\ \A e \in Events(c) : ~(e.op = "stop" /\ e.out = "stopped")
       /\ activeBackend = snap[c].active
       /\ busy = snap[c].busy
       /\ Handles = snap[c].handles
       /\ currentModel = snap[c].models

\* C35: the lock is held only by a caller inside its `async with` block (it
\* is released on every way out of it, error or not); a caller leaves the
\* queue only by being granted the lock; and again and again there is a
\* moment when every call that was started has returned, with success or an
\* error, so that no call stays queued or inside its transition for ever.
C35_CallsReturnAndLockIsGranted ==
  /\ [](\A c \in Callers : lockOwner = c => InTransition(c))
  /\ [][\A c \in Callers :
          (pc[c] = "waiting" /\ pc'[c] # "waiting") => lockOwner' = c]_vars
  /\ []<>(\A c \in Callers : pc[c] \in {"idle", "done"})

\* a switch has failed at its readiness wait and left the lock, and the
\* other caller now holds it, seeing the process the failed switch spawned
C35_Witness ==
  \E c, d \in Callers :
    /\ pc[c] = "done" /\ result[c] = BackendTimeout
    /\ Ev("start", call[c].target, "spawned") \in Events(c)
    /\ lockOwner = d /\ pc[d] = "decide"
    /\ call[c].target \in snap[d].handles

\* C36: whenever nobody holds the lock, busy is false.
C36_BusyOnlyUnderGate == lockOwner = None => ~busy

\* a switch that had set busy failed at its launch step and has left the
\* lock, and busy is false again
C36_Witness ==
  \E c \in Callers :
    /\ pc[c] = "done" /\ IsSwitch(c)
    /\ result[c] \in {LaunchError, InvalidModel}
    /\ \A b \in Others(c) : \E e \in Events(c) : e.op = "stop" /\ e.b = b
    /\ lockOwner = None
    /\ ~busy

\* C37 (as claimed): when stop_active_backend has returned successfully, no
\* backend has a live process spawned by the orchestrator.
C37_NoLiveProcessAfterDeactivate ==
  \A c \in Callers :
    (pc[c] = "done" /\ call[c].op = "deactivate" /\ result[c] = OK)
    => Live = {}

\* C38: while auto-switch is disabled, an ensure call runs _stop_one and
\* _start_one on no backend but its own target, and writes no other
\* backend's process handle; activeBackend never goes from one backend to
\* another; and it goes from none to X only in the adoption step of a call
\* for X whose probe was answered, a step that writes no process handle.
C38_NoSwitchWhileDisabled ==
  [][~autoSwitch =>
       /\ \A c \in Callers :
            (call'[c].op = "ensure" /\ log'[c] # log[c] /\ log'[c] # <<>>) =>
              LET e == log'[c][Len(log'[c])]
              IN e.op \in {"stop", "start"} => e.b = call'[c].target
       /\ \A b \in Backends :
            (process'[b] # process[b]
               /\ ~(process[b] = "live" /\ process'[b] = "dead")) =>
              \E c \in Callers :
                /\ lockOwner = c
                /\ call[c].op = "ensure" => call[c].target = b
       /\ (activeBackend # None /\ activeBackend' # activeBackend) =>
            activeBackend' = None
       /\ (activeBackend = None /\ activeBackend' # None) =>
            \E c \in Callers :
              /\ pc[c] = "adopt_probe"
              /\ activeBackend' = call[c].target
              /\ log'[c] = Append(log[c], Ev("probe", call[c].target, "ok"))
              /\ process' = process]_vars

\* with auto-switch disabled, llm was adopted and a model swap has then
\* spawned it, the only stops and starts being those of llm
C38_Witness ==
  \E c \in Callers :
    /\ ~autoSwitch
    /\ pc[c] = "done" /\ IsSwap(c) /\ result[c] = OK
    /\ activeBackend = call[c].target
    /\ Ev("start", call[c].target, "spawned") \in Events(c)
    /\ process[call[c].target] = "live"
    /\ currentModel[call[c].target] = call[c].model

\* C39 (as claimed): get_all_backends_info never raises, whatever a stop in
\* a worker thread does to a process handle between the check of the handle
\* and its liveness poll, and it reports active = true for at most one
\* backend.
C39_ListNeverFailsOneActive ==
  unit.fn = "get_all_backends_info" =>
    /\ unit.out.status # "raised"
    /\ Cardinality({i \in 1..Len(unit.trace) : unit.trace[i].active}) <= 1

====
